---- MODULE Spec2Model ----
(***************************************************************************)
(* Circuit-map comparison of two drivers (backend/circuit_map.py):         *)
(* telemetry extraction, alignment on a common distance grid, segmentation *)
(* by speed advantage and segment/colour assembly.                         *)
(*                                                                         *)
(* Numbers.  A float is modelled as an exact rational <<num, den>> in      *)
(* lowest terms with den > 0, or as NaN == <<0, 0>>.  Arithmetic with NaN  *)
(* gives NaN and every ordered comparison with NaN is false, as in IEEE    *)
(* 754.  Infinities are not modelled.  The variable precision gives the    *)
(* arithmetic: 0 for exact results, p > 0 for results rounded to the       *)
(* nearest float of p significant bits.  SpecFloat rounds, the other       *)
(* specifications compute exactly.                                         *)
(*                                                                         *)
(* Specifications.  Spec runs build_circuit_comparison_map on a session of *)
(* the provider; SpecAlign runs the Aligner alone; SpecSeg, SpecColour and *)
(* SpecScenario run the steps after the lookups on synthetic advantage     *)
(* arrays, on every colour lookup and on the traces of a worked example;   *)
(* SpecFloat runs them in rounded arithmetic.  SpecApp is the Streamlit    *)
(* script of app.py under reruns, SpecStints is identify_stints of         *)
(* backend/strategy.py.                                                    *)
(***************************************************************************)
EXTENDS Integers, Sequences, FiniteSets

VARIABLES
    session,      \* the provider's data: roster, laps, telemetry, team colours
    driver1,      \* driver codes of the query
    driver2,
    n_points,     \* n_points of _interpolate_on_common_distance
    t1,           \* telemetry DataFrames (sequences of rows)
    t2,
    aligned,      \* the dict returned by _interpolate_on_common_distance
    delta_speed,  \* speed1 - speed2
    seg_ids,      \* results of _split_segments_by_delta
    labels,
    c1,           \* display colours
    c2,
    fig,          \* the figure: segment traces, background trace, annotation
    err,          \* the exception raised past the current function, if any
    requests,     \* the driver codes _extract_fastest_telemetry was called with
    pc,           \* position in build_circuit_comparison_map
    precision,    \* significand bits of the floats, 0 for exact arithmetic
    widgets,      \* app.py: the values of the sidebar widgets
    session_state, \* app.py: st.session_state
    page,         \* app.py: what the pages did in the last rerun of the script
    laps,         \* strategy.py: session.laps, the lap rows of each driver
    stints        \* strategy.py: the rows returned by identify_stints

pipeline_vars == <<session, driver1, driver2, n_points, t1, t2, aligned,
                   delta_speed, seg_ids, labels, c1, c2, fig, err, requests, pc>>

app_vars == <<widgets, session_state, page>>

stint_vars == <<laps, stints>>

vars == <<pipeline_vars, precision, app_vars, stint_vars>>

\* the app and identify_stints are not running
AppIdle == widgets = <<>> /\ session_state = <<>> /\ page = <<>>

StintsIdle == laps = <<>> /\ stints = <<>>

----------------------------------------------------------------------------
(* Bounds of the model *)

\* longest trace handed to the Aligner in SpecAlign
MaxLen == 2

\* largest n_points tried in SpecAlign
MaxPoints == 3

\* significand bits of the floats of SpecFloat (binary64 has 53)
Precision == 5

----------------------------------------------------------------------------
(* Floats *)

NaN == <<0, 0>>

IsNaN(x) == x[2] = 0

Abs(n) == IF n < 0 THEN -n ELSE n

RECURSIVE GCD(_, _)
GCD(a, b) == IF b = 0 THEN a ELSE GCD(b, a % b)

\* the rational n/d (d # 0) in lowest terms with a positive denominator
Rat(n, d) ==
    LET s == IF d < 0 THEN -1 ELSE 1
        g == GCD(Abs(n), Abs(d))
    IN  <<(s * n) \div g, (s * d) \div g>>

F(n) == <<n, 1>>

RECURSIVE Pow2(_)
Pow2(n) == IF n = 0 THEN 1 ELSE 2 * Pow2(n - 1)

\* a / b (a >= 0, b > 0) rounded to the nearest integer, ties to the even one
HalfEven(a, b) ==
    LET q == a \div b
        r == a % b
    IN  IF 2 * r < b THEN q
        ELSE IF 2 * r > b THEN q + 1
        ELSE IF q % 2 = 0 THEN q ELSE q + 1

\* a / b * up / down (a, b > 0) rounded to p significant bits: a / b is
\* scaled by powers of two into [2^(p-1), 2^p) and rounded to an integer
RECURSIVE RoundScaled(_, _, _, _, _)
RoundScaled(a, b, up, down, p) ==
    IF a >= Pow2(p) * b THEN RoundScaled(a, 2 * b, 2 * up, down, p)
    ELSE IF a < Pow2(p - 1) * b THEN RoundScaled(2 * a, b, up, 2 * down, p)
    ELSE Rat(HalfEven(a, b) * up, down)

\* the float of p significant bits nearest to x, ties to even (no exponent
\* range: neither overflow nor subnormals)
RoundTo(x, p) ==
    IF IsNaN(x) \/ x[1] = 0 THEN x
    ELSE LET r == RoundScaled(Abs(x[1]), x[2], 1, 1, p)
         IN  IF x[1] < 0 THEN <<-r[1], r[2]>> ELSE r

\* the result of a float operation whose exact value is x
Fl(x) == IF precision = 0 THEN x ELSE RoundTo(x, precision)

FAdd(a, b) == IF IsNaN(a) \/ IsNaN(b) THEN NaN
              ELSE Fl(Rat(a[1] * b[2] + b[1] * a[2], a[2] * b[2]))

FSub(a, b) == IF IsNaN(a) \/ IsNaN(b) THEN NaN
              ELSE Fl(Rat(a[1] * b[2] - b[1] * a[2], a[2] * b[2]))

FMul(a, b) == IF IsNaN(a) \/ IsNaN(b) THEN NaN
              ELSE Fl(Rat(a[1] * b[1], a[2] * b[2]))

\* 0/0 is NaN; x/0 with x # 0 would be an infinity, which no run produces
\* (interp divides only by the gap between two distinct sorted distances)
FDiv(a, b) == IF IsNaN(a) \/ IsNaN(b) \/ b[1] = 0 THEN NaN
              ELSE Fl(Rat(a[1] * b[2], a[2] * b[1]))

FLt(a, b) == ~IsNaN(a) /\ ~IsNaN(b) /\ a[1] * b[2] < b[1] * a[2]

FGt(a, b) == FLt(b, a)

FLe(a, b) == ~IsNaN(a) /\ ~IsNaN(b) /\ a[1] * b[2] <= b[1] * a[2]

FGe(a, b) == FLe(b, a)

FEq(a, b) == ~IsNaN(a) /\ ~IsNaN(b) /\ a = b

----------------------------------------------------------------------------
(* DataFrame and array helpers *)

\* a telemetry row; the channels Throttle, Brake, nGear and DRS go through
\* the same interp as Speed, feed only the hover texts, and are not carried
\* by the model's rows
Row(d, v, x, y) == [Distance |-> d, Speed |-> v, X |-> x, Y |-> y]

Column(t, c) == [i \in 1..Len(t) |-> t[i][c]]

Range(s) == {s[i] : i \in 1..Len(s)}

\* all sequences over S of length lo..hi
SeqsOf(S, lo, hi) == UNION {[1..n -> S] : n \in lo..hi}

\* ndarray.max(): NaN if any element is NaN (the array is not empty)
NpMax(arr) ==
    IF \E i \in 1..Len(arr) : IsNaN(arr[i]) THEN NaN
    ELSE CHOOSE m \in Range(arr) : \A i \in 1..Len(arr) : FLe(arr[i], m)

\* Python's builtin min(a, b): b if b < a, else a
PyMin(a, b) == IF FLt(b, a) THEN b ELSE a

\* mutant: endpoint=False, the step is stop / n
LinspaceNoEndpoint(stop, n) ==
    [i \in 1..n |-> FDiv(FMul(F(i - 1), stop), F(n))]

\* np.linspace(0.0, stop, n): n evenly spaced points, endpoint included
Linspace(stop, n) ==
    [i \in 1..n |-> IF n = 1 THEN F(0) ELSE FDiv(FMul(F(i - 1), stop), F(n - 1))]

\* sort order of np.argsort: ascending, NaN last
SortLe(a, b) == IsNaN(b) \/ FLe(a, b)

IndexPerms(n) == {p \in [1..n -> 1..n] : \A i, j \in 1..n : i # j => p[i] # p[j]}

\* np.argsort(src_d) with the default kind ("quicksort", not a stable sort):
\* any permutation that sorts src_d; the order among equal keys is the
\* build's choice
ArgSorts(src_d) ==
    {p \in IndexPerms(Len(src_d)) :
        \A i \in 1..(Len(src_d) - 1) : SortLe(src_d[p[i]], src_d[p[i + 1]])}

\* the one order a stable sort gives: equal keys keep their input order
StableArgSort(src_d) ==
    CHOOSE p \in ArgSorts(src_d) :
        \A i \in 1..(Len(src_d) - 1) :
            (src_d[p[i]] = src_d[p[i + 1]]) => p[i] < p[i + 1]

Take(arr, idx) == [i \in 1..Len(idx) |-> arr[idx[i]]]

----------------------------------------------------------------------------
(* np.interp(x, xp, fp) for len(xp) <= 4 (linear search of the interval) *)

\* linear_search: the last j with x >= xp[2..j] (1-based), given x >= xp[1]
RECURSIVE LinearSearch(_, _, _)
LinearSearch(x, xp, i) ==
    IF i <= Len(xp) /\ FGe(x, xp[i]) THEN LinearSearch(x, xp, i + 1) ELSE i - 1

InterpAt(x, xp, fp) ==
    LET n == Len(xp) IN
    IF n = 1 THEN fp[1]
    ELSE IF IsNaN(x) THEN x
    ELSE IF FGt(x, xp[n]) THEN fp[n]
    ELSE IF FLt(x, xp[1]) THEN fp[1]
    ELSE LET j == LinearSearch(x, xp, 2) IN
         IF j = n THEN fp[n]
         ELSE IF FEq(xp[j], x) THEN fp[j]
         ELSE LET slope == FDiv(FSub(fp[j + 1], fp[j]), FSub(xp[j + 1], xp[j]))
                  r1 == FAdd(FMul(slope, FSub(x, xp[j])), fp[j])
                  r2 == FAdd(FMul(slope, FSub(x, xp[j + 1])), fp[j + 1])
              IN  IF ~IsNaN(r1) THEN r1
                  ELSE IF ~IsNaN(r2) THEN r2
                  ELSE IF FEq(fp[j], fp[j + 1]) THEN fp[j]
                  ELSE NaN

\* interp(arr, src_d) of _interpolate_on_common_distance, idx = np.argsort(src_d)
interp(arr, src_d, idx, common) ==
    LET src_d_sorted == Take(src_d, idx)
        arr_sorted == Take(arr, idx)
    IN  [i \in 1..Len(common) |-> InterpAt(common[i], src_d_sorted, arr_sorted)]

----------------------------------------------------------------------------
(* _interpolate_on_common_distance *)

Empty == <<>>

NoFig == [traces |-> <<>>, background |-> <<>>, annotation |-> <<>>]

ValueError(msg) == <<"ValueError", msg>>

\* mutant: the first driver's maximum alone, the min() forgotten
MaxCommonFirstOnly(d1, d2) == NpMax(d1)

\* max_common = min(d1.max(), d2.max())
MaxCommon(d1, d2) == PyMin(NpMax(d1), NpMax(d2))

\* the exception the Aligner raises on these traces, <<>> if it returns
AlignError(ta, tb) ==
    LET d1 == Column(ta, "Distance")
        d2 == Column(tb, "Distance")
    IN  IF Len(d1) = 0 \/ Len(d2) = 0
        THEN ValueError("zero-size array to reduction operation maximum which has no identity")
        ELSE IF FLe(MaxCommon(d1, d2), F(0)) \/ IsNaN(MaxCommon(d1, d2))
        THEN ValueError("Invalid distance in telemetry")
        ELSE <<>>

\* the dict of aligned arrays, with the argsort results ia and ib
Aligned(ta, tb, n, ia, ib) ==
    LET d1 == Column(ta, "Distance")
        d2 == Column(tb, "Distance")
        common == Linspace(MaxCommon(d1, d2), n)
    IN  [Distance |-> common,
         X1 |-> interp(Column(ta, "X"), d1, ia, common),
         Y1 |-> interp(Column(ta, "Y"), d1, ia, common),
         Speed1 |-> interp(Column(ta, "Speed"), d1, ia, common),
         X2 |-> interp(Column(tb, "X"), d2, ib, common),
         Y2 |-> interp(Column(tb, "Y"), d2, ib, common),
         Speed2 |-> interp(Column(tb, "Speed"), d2, ib, common)]

\* the call aligned = _interpolate_on_common_distance(t1, t2) of
\* build_circuit_comparison_map
Align ==
    /\ pc = "extracted"
    /\ \/ /\ AlignError(t1, t2) # <<>>
          /\ err' = AlignError(t1, t2)
          /\ pc' = "raised"
          /\ UNCHANGED aligned
       \/ /\ AlignError(t1, t2) = <<>>
          /\ \E ia \in ArgSorts(Column(t1, "Distance")),
                ib \in ArgSorts(Column(t2, "Distance")) :
                aligned' = Aligned(t1, t2, n_points, ia, ib)
          /\ pc' = "aligned"
          /\ UNCHANGED err
    /\ UNCHANGED <<precision, app_vars, stint_vars>>
    /\ UNCHANGED <<session, driver1, driver2, n_points, t1, t2,
                   delta_speed, seg_ids, labels, c1, c2, fig, requests>>

----------------------------------------------------------------------------
(* The Aligner alone, on every pair of small traces *)

\* distances are finite, or missing on every row of the trace
AlignFinite ==
    {Row(F(0), F(1), F(0), F(0)), Row(F(5), F(1), F(4), F(0)),
     Row(F(5), F(3), F(4), F(2)), Row(F(10), F(3), F(8), F(2))}

AlignMissing == {Row(NaN, F(1), F(0), F(0))}

AlignTraces == SeqsOf(AlignFinite, 1, MaxLen) \cup SeqsOf(AlignMissing, 1, MaxLen)

InitAlign ==
    /\ session = Empty /\ driver1 = "" /\ driver2 = ""
    /\ n_points \in 1..MaxPoints
    /\ t1 \in AlignTraces
    /\ t2 \in AlignTraces
    /\ aligned = Empty /\ delta_speed = Empty
    /\ seg_ids = Empty /\ labels = Empty
    /\ c1 = Empty /\ c2 = Empty /\ fig = NoFig /\ err = <<>>
    /\ requests = <<>>
    /\ pc = "extracted"
    /\ precision = 0 /\ AppIdle /\ StintsIdle

NextAlign == Align

SpecAlign == InitAlign /\ [][NextAlign]_vars

----------------------------------------------------------------------------
(* _extract_fastest_telemetry *)

\* tel[...].dropna(subset=["Distance"]).reset_index(drop=True)
DropNaDistance(tel) == SelectSeq(tel, LAMBDA r : ~IsNaN(r.Distance))

\* mutant: laps.empty tested before the roster lookup
extract_laps_first(sess, driver_code) ==
    IF sess[driver_code].laps = "empty"
    THEN [err |-> ValueError(<<"No laps for driver">>), tel |-> <<>>]
    ELSE IF ~sess[driver_code].in_roster
    THEN [err |-> ValueError(<<"Driver ", driver_code, " not found in session">>),
          tel |-> <<>>]
    ELSE IF sess[driver_code].laps = "no_telemetry"
    THEN [err |-> <<"Exception", <<"telemetry not available">>>>, tel |-> <<>>]
    ELSE [err |-> <<>>, tel |-> DropNaDistance(sess[driver_code].tel)]

\* result of _extract_fastest_telemetry(session, driver_code): the exception
\* raised (<<>> if none) and the DataFrame returned
extract_fastest_telemetry(sess, driver_code) ==
    IF ~sess[driver_code].in_roster
    THEN [err |-> ValueError(<<"Driver ", driver_code, " not found in session">>),
          tel |-> <<>>]
    ELSE IF sess[driver_code].laps = "empty"
    THEN [err |-> ValueError(<<"No laps for driver">>), tel |-> <<>>]
    ELSE IF sess[driver_code].laps = "no_telemetry"
    THEN [err |-> <<"Exception", <<"telemetry not available">>>>, tel |-> <<>>]
    ELSE [err |-> <<>>, tel |-> DropNaDistance(sess[driver_code].tel)]

Unavailable(e) ==
    [traces |-> <<>>, background |-> <<>>,
     annotation |-> <<"Telemetry unavailable: ", e[2]>>]

\* mutant: the second lookup is made although the first one raised
LookupsBoth(r1) == <<driver1, driver2>>

\* the calls of lines 158-159 that are made: the second one only if the
\* first one returned
Lookups(r1) == IF r1.err # <<>> THEN <<driver1>> ELSE <<driver1, driver2>>

\* the try block of build_circuit_comparison_map
Extract ==
    /\ pc = "start"
    /\ LET r1 == extract_fastest_telemetry(session, driver1)
           r2 == extract_fastest_telemetry(session, driver2)
       IN  /\ requests' = Lookups(r1)
           /\ \/ /\ r1.err # <<>>
                 /\ fig' = Unavailable(r1.err)
                 /\ pc' = "returned"
                 /\ UNCHANGED <<t1, t2>>
              \/ /\ r1.err = <<>> /\ r2.err # <<>>
                 /\ fig' = Unavailable(r2.err)
                 /\ pc' = "returned"
                 /\ UNCHANGED <<t1, t2>>
              \/ /\ r1.err = <<>> /\ r2.err = <<>>
                 /\ t1' = r1.tel
                 /\ t2' = r2.tel
                 /\ pc' = "extracted"
                 /\ UNCHANGED fig
    /\ UNCHANGED <<precision, app_vars, stint_vars>>
    /\ UNCHANGED <<session, driver1, driver2, n_points, aligned, delta_speed,
                   seg_ids, labels, c1, c2, err>>

----------------------------------------------------------------------------
(* _split_segments_by_delta *)

\* threshold=0.1 passed by build_circuit_comparison_map
Threshold == Fl(<<1, 10>>)

FNeg(a) == IF IsNaN(a) THEN NaN ELSE <<-a[1], a[2]>>

\* mutant: the band's edges counted as faster (>= and <=)
LabelInclusive(d, threshold) ==
    IF FLe(d, FNeg(threshold)) THEN -1
    ELSE IF FGe(d, threshold) THEN 1
    ELSE 0

\* labels[delta > threshold] = 1, then labels[delta < -threshold] = -1
Label(d, threshold) ==
    IF FLt(d, FNeg(threshold)) THEN -1
    ELSE IF FGt(d, threshold) THEN 1
    ELSE 0

\* mutant: prev is not updated when the label changes
RECURSIVE SegScanKeepsPrev(_, _, _, _)
SegScanKeepsPrev(lab, i, seg, prev) ==
    IF i > Len(lab) THEN <<>>
    ELSE IF lab[i] # prev
         THEN <<seg + 1>> \o SegScanKeepsPrev(lab, i + 1, seg + 1, prev)
         ELSE <<seg>> \o SegScanKeepsPrev(lab, i + 1, seg, prev)

\* the scan of lines 140-148 from index i on, with the loop's seg and prev
RECURSIVE SegScan(_, _, _, _)
SegScan(lab, i, seg, prev) ==
    IF i > Len(lab) THEN <<>>
    ELSE IF lab[i] # prev
         THEN <<seg + 1>> \o SegScan(lab, i + 1, seg + 1, lab[i])
         ELSE <<seg>> \o SegScan(lab, i + 1, seg, prev)

SegIds(lab) == <<0>> \o SegScan(lab, 2, 0, lab[1])

split_segments_by_delta(delta, threshold) ==
    LET lab == [i \in 1..Len(delta) |-> Label(delta[i], threshold)]
    IN  [seg_ids |-> SegIds(lab), labels |-> lab]

\* delta_speed = speed1 - speed2
DeltaSpeed(speed1, speed2) == [i \in 1..Len(speed1) |-> FSub(speed1[i], speed2[i])]

\* lines 167-173 of build_circuit_comparison_map
Segment ==
    /\ pc = "aligned"
    /\ delta_speed' = DeltaSpeed(aligned.Speed1, aligned.Speed2)
    /\ seg_ids' = split_segments_by_delta(delta_speed', Threshold).seg_ids
    /\ labels' = split_segments_by_delta(delta_speed', Threshold).labels
    /\ pc' = "segmented"
    /\ UNCHANGED <<precision, app_vars, stint_vars>>
    /\ UNCHANGED <<session, driver1, driver2, n_points, t1, t2, aligned,
                   c1, c2, fig, err, requests>>

----------------------------------------------------------------------------
(* Colours *)

\* a "#rrggbb" string is modelled by its three channel values, a named colour
\* by its name
Hex(r, g, b) == [name |-> "hex", rgb |-> <<r, g, b>>]

\* the same string spelled with upper-case hex digits ("#FF0000")
HexUpper(r, g, b) == [name |-> "HEX", rgb |-> <<r, g, b>>]

\* str.lower()
Lower(c) == IF c.name = "HEX" THEN Hex(c.rgb[1], c.rgb[2], c.rgb[3]) ELSE c

LightGrey == [name |-> "lightgrey", rgb |-> <<211, 211, 211>>]

\* "#1f77b4"
DefaultColor == Hex(31, 119, 180)

NoColor == [name |-> "none", rgb |-> <<>>]

\* the import of TEAM_COLORS fails
Raises == [name |-> "raises", rgb |-> <<>>]

\* mutant: int(x + 0.5), rounding to the nearest value
MixChannelRound(c, m, fnum, fden) ==
    (2 * (c * (fden - fnum) + m * fnum) + fden) \div (2 * fden)

\* int(c * (1 - factor) + m * factor) for factor = fnum / fden and channel
\* values 0..255 (the double arithmetic gives the exact floor for the two
\* factors used, 0.25 and 0.35)
MixChannel(c, m, fnum, fden) == (c * (fden - fnum) + m * fnum) \div fden

mix_color(hex_color, mix_with, fnum, fden) ==
    Hex(MixChannel(hex_color.rgb[1], mix_with[1], fnum, fden),
        MixChannel(hex_color.rgb[2], mix_with[2], fnum, fden),
        MixChannel(hex_color.rgb[3], mix_with[3], fnum, fden))

\* mutant: no second try, TEAM_COLORS is not consulted
get_team_color_single_source(sess, driver_code) ==
    IF ~sess[driver_code].in_roster \/ sess[driver_code].team = ""
    THEN DefaultColor
    ELSE IF sess[driver_code].team_color # NoColor
    THEN sess[driver_code].team_color
    ELSE DefaultColor

\* _get_team_color_safe.  Of the provider, team is the TeamName of the roster
\* entry ("" if falsy), team_color what fastf1.plotting.team_color(team)
\* returns (NoColor if the import or the call raises) and TEAM_COLORS what
\* TEAM_COLORS.get(team) returns (NoColor for None, Raises if the import
\* fails).  Every exception is caught and leads to the fallback.
get_team_color_safe(sess, driver_code) ==
    IF ~sess[driver_code].in_roster \/ sess[driver_code].team = ""
    THEN DefaultColor
    ELSE IF sess[driver_code].team_color # NoColor
    THEN sess[driver_code].team_color
    ELSE IF sess[driver_code].TEAM_COLORS \notin {Raises, NoColor}
    THEN sess[driver_code].TEAM_COLORS
    ELSE DefaultColor

\* mutant: c1 == c2 without lower()
ColoursCaseSensitive ==
    /\ pc = "segmented"
    /\ LET a == get_team_color_safe(session, driver1)
           b == get_team_color_safe(session, driver2)
       IN  \/ /\ a = b
              /\ c1' = mix_color(a, <<40, 40, 40>>, 1, 4)
              /\ c2' = mix_color(b, <<220, 220, 220>>, 7, 20)
           \/ /\ a # b
              /\ c1' = a
              /\ c2' = b
    /\ pc' = "coloured"
    /\ UNCHANGED <<precision, app_vars, stint_vars>>
    /\ UNCHANGED <<session, driver1, driver2, n_points, t1, t2, aligned,
                   delta_speed, seg_ids, labels, fig, err, requests>>

\* lines 175-182
Colours ==
    /\ pc = "segmented"
    /\ LET a == get_team_color_safe(session, driver1)
           b == get_team_color_safe(session, driver2)
       IN  \/ /\ Lower(a) = Lower(b)
              /\ c1' = mix_color(a, <<40, 40, 40>>, 1, 4)
              /\ c2' = mix_color(b, <<220, 220, 220>>, 7, 20)
           \/ /\ Lower(a) # Lower(b)
              /\ c1' = a
              /\ c2' = b
    /\ pc' = "coloured"
    /\ UNCHANGED <<precision, app_vars, stint_vars>>
    /\ UNCHANGED <<session, driver1, driver2, n_points, t1, t2, aligned,
                   delta_speed, seg_ids, labels, fig, err, requests>>

----------------------------------------------------------------------------
(* Segment traces and background *)

\* mutant: seg_ids >= seg instead of seg_ids == seg
RECURSIVE WhereAtLeast(_, _, _)
WhereAtLeast(ids, seg, i) ==
    IF i > Len(ids) THEN <<>>
    ELSE IF ids[i] >= seg THEN <<i>> \o WhereAtLeast(ids, seg, i + 1)
    ELSE WhereAtLeast(ids, seg, i + 1)

\* np.where(seg_ids == seg)[0], as ascending 1-based positions
RECURSIVE Where(_, _, _)
Where(ids, seg, i) ==
    IF i > Len(ids) THEN <<>>
    ELSE IF ids[i] = seg THEN <<i>> \o Where(ids, seg, i + 1)
    ELSE Where(ids, seg, i + 1)

\* nanmean's copy of the array has 0 in the place of NaN
ZeroNaN(x) == IF IsNaN(x) THEN F(0) ELSE x

\* res + arr[i] + arr[i + 1] + ..., added from left to right
RECURSIVE SumFinite(_, _, _)
SumFinite(arr, i, res) ==
    IF i > Len(arr) THEN res
    ELSE SumFinite(arr, i + 1, FAdd(res, ZeroNaN(arr[i])))

\* np.sum of that copy: the first value plus the sum of the others, which
\* numpy accumulates from 0 in index order (arrays of fewer than 9 values)
NanSum(arr) ==
    IF Len(arr) = 0 THEN F(0)
    ELSE FAdd(ZeroNaN(arr[1]), SumFinite(arr, 2, F(0)))

\* np.nanmean: the mean of the values that are not NaN, NaN if there is none
NanMean(arr) ==
    LET cnt == Cardinality({i \in 1..Len(arr) : ~IsNaN(arr[i])})
    IN  IF cnt = 0 THEN NaN ELSE FDiv(NanSum(arr), F(cnt))

\* the 0.1 of lines 207 and 210
MeanThreshold == Fl(<<1, 10>>)

\* mutant: the sign of the mean decides, without the dead-band
DominantBySign(mean_delta) ==
    IF FGt(mean_delta, F(0)) THEN 1
    ELSE IF FLt(mean_delta, F(0)) THEN -1
    ELSE 0

\* mutant: "not (mean <= 0.1)" for "mean > 0.1", which a NaN mean passes
DominantNotBelow(mean_delta) ==
    IF ~FLe(mean_delta, MeanThreshold) THEN 1
    ELSE IF FLt(mean_delta, FNeg(MeanThreshold)) THEN -1
    ELSE 0

\* the branch of lines 207-215: 1 driver1's colour, -1 driver2's, 0 lightgrey
Dominant(mean_delta) ==
    IF FGt(mean_delta, MeanThreshold) THEN 1
    ELSE IF FLt(mean_delta, FNeg(MeanThreshold)) THEN -1
    ELSE 0

\* mutant: the else branch of lines 213-215 takes driver 2's colour
SegmentTraceTinted(seg) ==
    LET idx == Where(seg_ids, seg, 1)
        mean_delta == NanMean(Take(delta_speed, idx))
        dom == Dominant(mean_delta)
    IN  [idx |-> idx,
         x |-> Take(aligned.X1, idx),
         y |-> Take(aligned.Y1, idx),
         mean_delta |-> mean_delta,
         dominant |-> dom,
         color |-> IF dom = 1 THEN c1 ELSE c2,
         name |-> IF dom = 1 THEN <<driver1, " faster">>
                  ELSE IF dom = -1 THEN <<driver2, " faster">>
                  ELSE <<"Equal pace">>]

\* the go.Scatter added for one segment id
SegmentTrace(seg) ==
    LET idx == Where(seg_ids, seg, 1)
        mean_delta == NanMean(Take(delta_speed, idx))
        dom == Dominant(mean_delta)
    IN  [idx |-> idx,
         x |-> Take(aligned.X1, idx),
         y |-> Take(aligned.Y1, idx),
         mean_delta |-> mean_delta,
         dominant |-> dom,
         color |-> IF dom = 1 THEN c1 ELSE IF dom = -1 THEN c2 ELSE LightGrey,
         name |-> IF dom = 1 THEN <<driver1, " faster">>
                  ELSE IF dom = -1 THEN <<driver2, " faster">>
                  ELSE <<"Equal pace">>]

\* mutant: range(seg_ids.max()) for np.unique(seg_ids), the last id left out
RECURSIVE UniqueBelowMax(_, _)
UniqueBelowMax(ids, k) ==
    IF k > Len(ids) THEN <<>>
    ELSE IF \E i \in 1..Len(ids) : ids[i] > k - 1
         THEN <<k - 1>> \o UniqueBelowMax(ids, k + 1)
         ELSE UniqueBelowMax(ids, k + 1)

\* np.unique(seg_ids), ascending
RECURSIVE Unique(_, _)
Unique(ids, k) ==
    IF k > Len(ids) THEN <<>>
    ELSE IF \E i \in 1..Len(ids) : ids[i] = k - 1
         THEN <<k - 1>> \o Unique(ids, k + 1)
         ELSE Unique(ids, k + 1)

\* mutant: the sum of the two positions, without the factor 0.5
HalfForgotten(a) == a

Half(a) == FMul(<<1, 2>>, a)

\* lines 184-271: one trace per segment id, then the background trace
Assemble ==
    /\ pc = "coloured"
    /\ LET segs == Unique(seg_ids, 1)
       IN  fig' = [traces |-> [k \in 1..Len(segs) |-> SegmentTrace(segs[k])],
                   background |->
                       [i \in 1..Len(aligned.X1) |->
                           <<Half(FAdd(aligned.X1[i], aligned.X2[i])),
                             Half(FAdd(aligned.Y1[i], aligned.Y2[i]))>>],
                   annotation |-> <<>>]
    /\ pc' = "returned"
    /\ UNCHANGED <<precision, app_vars, stint_vars>>
    /\ UNCHANGED <<session, driver1, driver2, n_points, t1, t2, aligned,
                   delta_speed, seg_ids, labels, c1, c2, err, requests>>

----------------------------------------------------------------------------
(* build_circuit_comparison_map on a session of the provider *)

\* stands for the default n_points = 2000
NPoints == 3

\* longest fastest-lap telemetry of the provider
PipeLen == 2

Drivers == {"VER", "HAM"}

PipeRows ==
    {Row(F(0), F(100), F(0), F(0)), Row(F(10), F(120), F(6), F(8)),
     Row(F(20), NaN, F(12), F(16)), Row(NaN, F(100), F(0), F(0))}

TeamColors == {NoColor, Hex(255, 0, 0)}

\* what the provider holds for one driver
DriverData ==
    [in_roster : {FALSE}, laps : {"empty"}, tel : {<<>>}, team : {""},
     team_color : {NoColor}, TEAM_COLORS : {NoColor}]
    \cup [in_roster : {TRUE}, laps : {"empty", "no_telemetry"}, tel : {<<>>},
          team : {"Team"}, team_color : {NoColor}, TEAM_COLORS : {NoColor}]
    \cup [in_roster : {TRUE}, laps : {"ok"}, tel : SeqsOf(PipeRows, 0, PipeLen),
          team : {"Team"}, team_color : TeamColors, TEAM_COLORS : {NoColor}]

Init ==
    /\ session \in [Drivers -> DriverData]
    /\ driver1 = "VER"
    /\ driver2 \in Drivers
    /\ n_points = NPoints
    /\ t1 = Empty /\ t2 = Empty
    /\ aligned = Empty /\ delta_speed = Empty
    /\ seg_ids = Empty /\ labels = Empty
    /\ c1 = Empty /\ c2 = Empty /\ fig = NoFig /\ err = <<>>
    /\ requests = <<>>
    /\ pc = "start"
    /\ precision = 0 /\ AppIdle /\ StintsIdle

Next == Extract \/ Align \/ Segment \/ Colours \/ Assemble

Spec == Init /\ [][Next]_vars

----------------------------------------------------------------------------
(* The Segmenter and the assembly on synthetic advantage arrays *)

\* longest advantage array
MaxGrid == 3

\* advantage values around the dead-band: 0, +-0.1, +-0.2, +-0.3 and NaN
DeltaValues ==
    {NaN, <<-3, 10>>, <<-1, 5>>, <<-1, 10>>, F(0), <<1, 10>>, <<1, 5>>, <<3, 10>>}

Zeros(n) == [i \in 1..n |-> F(0)]

SegDriverData ==
    [in_roster : {TRUE}, laps : {"ok"}, tel : {<<>>}, team : {"Team"},
     team_color : TeamColors, TEAM_COLORS : {NoColor}]

\* the state after the Aligner returned: driver 2 at constant speed 0, so
\* that speed1 - speed2 ranges over the arrays of DeltaValues
InitSeg ==
    /\ session \in [Drivers -> SegDriverData]
    /\ driver1 = "VER" /\ driver2 = "HAM"
    /\ n_points \in 1..MaxGrid
    /\ t1 = Empty /\ t2 = Empty
    /\ \E speed1 \in [1..n_points -> DeltaValues] :
           aligned = [Distance |-> [i \in 1..n_points |-> F(i - 1)],
                      X1 |-> Zeros(n_points), Y1 |-> Zeros(n_points),
                      Speed1 |-> speed1,
                      X2 |-> Zeros(n_points), Y2 |-> Zeros(n_points),
                      Speed2 |-> Zeros(n_points)]
    /\ delta_speed = Empty
    /\ seg_ids = Empty /\ labels = Empty
    /\ c1 = Empty /\ c2 = Empty /\ fig = NoFig /\ err = <<>>
    /\ requests = <<driver1, driver2>>
    /\ pc = "aligned"
    /\ precision = 0 /\ AppIdle /\ StintsIdle

NextSeg == Segment \/ Colours \/ Assemble

SpecSeg == InitSeg /\ [][NextSeg]_vars

----------------------------------------------------------------------------
(* The colour lookups and the assembly, on every provider outcome and on *)
(* every value of a colour channel                                       *)

\* largest value of a two-digit hex channel
MaxChannel == 255

\* colours in which one channel takes every value and the two others an
\* extreme one (the mix treats the three channels separately)
SweepColours ==
    {Hex(v, a, b) : v \in 0..MaxChannel, a \in {0, MaxChannel}, b \in {0, MaxChannel}}
    \cup {Hex(a, v, b) : v \in 0..MaxChannel, a \in {0, MaxChannel}, b \in {0, MaxChannel}}
    \cup {Hex(a, b, v) : v \in 0..MaxChannel, a \in {0, MaxChannel}, b \in {0, MaxChannel}}

Upper(c) == HexUpper(c.rgb[1], c.rgb[2], c.rgb[3])

Teammate(c) ==
    [in_roster |-> TRUE, laps |-> "ok", tel |-> <<>>, team |-> "Team",
     team_color |-> c, TEAM_COLORS |-> NoColor]

\* two drivers of one team, the colour spelled in lower or upper case
Teammates(x, c) == [d \in Drivers |-> IF d = "VER" THEN Teammate(x) ELSE Teammate(c)]

SweepSessions ==
    UNION {{Teammates(c, c), Teammates(Upper(c), c)} : c \in SweepColours}

\* every outcome of the roster and of the two colour sources
LookupData ==
    [in_roster : {FALSE}, laps : {"ok"}, tel : {<<>>}, team : {""},
     team_color : {NoColor, Hex(255, 0, 0)},
     TEAM_COLORS : {Raises, NoColor, Hex(0, 0, 255)}]
    \cup [in_roster : {TRUE}, laps : {"ok"}, tel : {<<>>}, team : {"", "Team"},
          team_color : {NoColor, Hex(255, 0, 0), HexUpper(255, 0, 0)},
          TEAM_COLORS : {Raises, NoColor, Hex(255, 0, 0), Hex(0, 0, 255)}]

\* the state after the Aligner returned a grid of three points on which
\* driver 1 is faster, then neither, then driver 2
InitColour ==
    /\ session \in SweepSessions \cup [Drivers -> LookupData]
    /\ driver1 = "VER" /\ driver2 = "HAM"
    /\ n_points = 3
    /\ t1 = Empty /\ t2 = Empty
    /\ aligned = [Distance |-> <<F(0), F(1), F(2)>>,
                  X1 |-> Zeros(3), Y1 |-> Zeros(3),
                  Speed1 |-> <<F(101), F(100), F(99)>>,
                  X2 |-> Zeros(3), Y2 |-> Zeros(3),
                  Speed2 |-> <<F(100), F(100), F(100)>>]
    /\ delta_speed = Empty
    /\ seg_ids = Empty /\ labels = Empty
    /\ c1 = Empty /\ c2 = Empty /\ fig = NoFig /\ err = <<>>
    /\ requests = <<driver1, driver2>>
    /\ pc = "aligned"
    /\ precision = 0 /\ AppIdle /\ StintsIdle

NextColour == Segment \/ Colours \/ Assemble

SpecColour == InitColour /\ [][NextColour]_vars

----------------------------------------------------------------------------
(* The pipeline after the lookups, on traces made of the samples *)
(* (d, v) = (0, 100), (10, 120), (20, 80) for driver 1 and       *)
(* (0, 90), (10, 90), (20, 110) for driver 2                     *)

ScenarioA ==
    <<Row(F(0), F(100), F(0), F(0)), Row(F(10), F(120), F(10), F(0)),
      Row(F(20), F(80), F(20), F(0))>>

ScenarioB ==
    <<Row(F(0), F(90), F(0), F(1)), Row(F(10), F(90), F(10), F(1)),
      Row(F(20), F(110), F(20), F(1))>>

\* the traces made of some of the samples of t, each at most once, in any
\* order
Selections(t) ==
    {u \in SeqsOf(Range(t), 1, Len(t)) :
        \A i, j \in 1..Len(u) : i # j => u[i] # u[j]}

InitScenario ==
    /\ session \in [Drivers -> SegDriverData]
    /\ driver1 = "VER" /\ driver2 = "HAM"
    /\ n_points \in 1..MaxPoints
    /\ t1 \in Selections(ScenarioA)
    /\ t2 \in Selections(ScenarioB)
    /\ aligned = Empty /\ delta_speed = Empty
    /\ seg_ids = Empty /\ labels = Empty
    /\ c1 = Empty /\ c2 = Empty /\ fig = NoFig /\ err = <<>>
    /\ requests = <<driver1, driver2>>
    /\ pc = "extracted"
    /\ precision = 0 /\ AppIdle /\ StintsIdle

NextScenario == Align \/ Segment \/ Colours \/ Assemble

SpecScenario == InitScenario /\ [][NextScenario]_vars

----------------------------------------------------------------------------
(* Claims about the Aligner (SpecAlign) *)

Returned == pc = "aligned"

Finished == pc # "extracted"

AllMissing(d) == \A i \in 1..Len(d) : IsNaN(d[i])

AllFinite(d) == \A i \in 1..Len(d) : ~IsNaN(d[i])

\* largest and smallest recorded distance of a trace with finite distances
MaxDistance(t) ==
    CHOOSE m \in Range(Column(t, "Distance")) :
        \A x \in Range(Column(t, "Distance")) : x[1] * m[2] <= m[1] * x[2]

MinDistance(t) ==
    CHOOSE m \in Range(Column(t, "Distance")) :
        \A x \in Range(Column(t, "Distance")) : m[1] * x[2] <= x[1] * m[2]

\* distance entirely missing, or maximum distance <= 0
Degenerate(t) ==
    \/ AllMissing(Column(t, "Distance"))
    \/ AllFinite(Column(t, "Distance")) /\ MaxDistance(t)[1] <= 0

NonDegenerate(t) ==
    Len(t) >= 1 /\ AllFinite(Column(t, "Distance")) /\ MaxDistance(t)[1] > 0

SmallerOf(a, b) == IF a[1] * b[2] <= b[1] * a[2] THEN a ELSE b

StrictlyIncreasing(arr) ==
    \A i \in 1..(Len(arr) - 1) : arr[i][1] * arr[i + 1][2] < arr[i + 1][1] * arr[i][2]

\* C2: the Aligner raises whenever either trace, in either argument position,
\* has its distances entirely missing or a maximum distance <= 0; it never
\* returns an aligned result for such a pair.
C2_DegenerateEitherPositionRaises ==
    (Finished /\ (Degenerate(t1) \/ Degenerate(t2))) => pc = "raised"

\* C4 as stated: for non-degenerate traces and any n_points the grid has
\* n_points points, is strictly increasing, starts at 0 and ends at
\* min(maxDistance(A), maxDistance(B)); every aligned array has n_points values.
C4_GridCoverageAnyN ==
    (Finished /\ NonDegenerate(t1) /\ NonDegenerate(t2)) =>
        /\ Returned
        /\ Len(aligned.Distance) = n_points
        /\ Len(aligned.Speed1) = n_points
        /\ Len(aligned.Speed2) = n_points
        /\ StrictlyIncreasing(aligned.Distance)
        /\ aligned.Distance[1] = F(0)
        /\ aligned.Distance[n_points] = SmallerOf(MaxDistance(t1), MaxDistance(t2))

\* C4 amended: the same for n_points >= 2; for n_points = 1 the grid is the
\* single point 0 and does not reach min(maxDistance(A), maxDistance(B)).
C4_GridCoverage ==
    (Finished /\ NonDegenerate(t1) /\ NonDegenerate(t2)) =>
        /\ Returned
        /\ Len(aligned.Distance) = n_points
        /\ Len(aligned.Speed1) = n_points
        /\ Len(aligned.Speed2) = n_points
        /\ StrictlyIncreasing(aligned.Distance)
        /\ aligned.Distance[1] = F(0)
        /\ n_points >= 2 =>
               aligned.Distance[n_points] = SmallerOf(MaxDistance(t1), MaxDistance(t2))
        /\ n_points = 1 =>
               aligned.Distance[n_points] # SmallerOf(MaxDistance(t1), MaxDistance(t2))

C4_Witness ==
    /\ Returned /\ NonDegenerate(t1) /\ NonDegenerate(t2)
    /\ n_points >= 3
    /\ MaxDistance(t1) # MaxDistance(t2)
    /\ Len(t1) # Len(t2)

\* C8: every grid point lies between each driver's smallest and largest
\* recorded distance.
C8_GridInsideOwnRange ==
    (Returned /\ NonDegenerate(t1) /\ NonDegenerate(t2)) =>
        \A i \in 1..Len(aligned.Distance) : \A t \in {t1, t2} :
            /\ FLe(MinDistance(t), aligned.Distance[i])
            /\ FLe(aligned.Distance[i], MaxDistance(t))

StableSorted(t) == Take(t, StableArgSort(Column(t, "Distance")))

Identity(n) == [i \in 1..n |-> i]

\* C10: the Aligner sorts each trace by distance with a stable sort before
\* interpolating: whatever the order of the rows handed in, the aligned output
\* is the one obtained from the same rows already sorted by distance, rows of
\* equal distance kept in their original relative order.
C10_StableSortBeforeInterp ==
    Returned =>
        aligned = Aligned(StableSorted(t1), StableSorted(t2), n_points,
                          Identity(Len(t1)), Identity(Len(t2)))

----------------------------------------------------------------------------
(* Claims about the Segmenter and the assembly (SpecSeg) *)

Segmented == pc \in {"segmented", "coloured", "returned"}

\* a figure with segment traces, not the "unavailable" figure
MapBuilt == pc = "returned" /\ fig.annotation = <<>>

\* positions lo..hi in ascending order
Interval(lo, hi) == [i \in 1..(hi - lo + 1) |-> lo + i - 1]

\* C1: the segment ids start at 0, never decrease and rise by at most 1 between
\* neighbours, one id per grid point; the segments the figure is built from
\* are non-empty intervals of grid positions, in order, the first starting at
\* the first position, each next one right after the previous one, the last
\* ending at the last position.
C1_SegmentsPartitionGrid ==
    /\ Segmented =>
           /\ Len(seg_ids) = n_points
           /\ seg_ids[1] = 0
           /\ \A i \in 1..(n_points - 1) : seg_ids[i + 1] - seg_ids[i] \in {0, 1}
    /\ MapBuilt =>
           LET tr == fig.traces
               m == Len(tr)
           IN  /\ m >= 1
               /\ \A k \in 1..m :
                      /\ Len(tr[k].idx) >= 1
                      /\ tr[k].idx = Interval(tr[k].idx[1], tr[k].idx[Len(tr[k].idx)])
               /\ tr[1].idx[1] = 1
               /\ tr[m].idx[Len(tr[m].idx)] = n_points
               /\ \A k \in 1..(m - 1) :
                      tr[k + 1].idx[1] = tr[k].idx[Len(tr[k].idx)] + 1

C1_Witness ==
    /\ MapBuilt
    /\ n_points >= 3
    /\ Len(fig.traces) = 2
    /\ Len(fig.traces[1].idx) = 2

\* number of positions i >= 2 whose label differs from the previous one
LabelChanges == Cardinality({i \in 2..Len(labels) : labels[i] # labels[i - 1]})

\* C5: position 1 starts segment 0 and a new segment starts at i >= 2 iff
\* label[i] # label[i-1]; the number of segments is 1 + the number of label
\* changes, every segment carries one label, and one point gives one segment.
C5_BoundaryIffLabelChange ==
    /\ Segmented =>
           /\ seg_ids[1] = 0
           /\ \A i \in 2..n_points :
                  (seg_ids[i] # seg_ids[i - 1]) <=> (labels[i] # labels[i - 1])
           /\ seg_ids[n_points] = LabelChanges
           /\ \A i, j \in 1..n_points :
                  (seg_ids[i] = seg_ids[j]) => (labels[i] = labels[j])
           /\ (n_points = 1) => (seg_ids = <<0>>)
    /\ MapBuilt => Len(fig.traces) = 1 + LabelChanges

\* the label returns to an earlier value after a change
C5_Witness ==
    /\ MapBuilt
    /\ n_points >= 3
    /\ labels[1] = labels[3]
    /\ labels[1] # labels[2]
    /\ Len(fig.traces) = 3

\* x > 1/10, x < -1/10 for a float x that is not NaN
AboveTau(x) == ~IsNaN(x) /\ 10 * x[1] > x[2]

BelowMinusTau(x) == ~IsNaN(x) /\ 10 * x[1] < -x[2]

\* C6: advantage = speed1 - speed2; the label is 1 (driver 1 faster) iff
\* advantage > 0.1, -1 (driver 2 faster) iff advantage < -0.1, else 0 (equal),
\* so every point with |advantage| <= 0.1 is labelled equal, and two
\* neighbours inside the dead-band are in the same segment.
C6_DeadBandClassification ==
    Segmented =>
        /\ Len(labels) = n_points
        /\ \A i \in 1..n_points :
               /\ delta_speed[i] = FSub(aligned.Speed1[i], aligned.Speed2[i])
               /\ (labels[i] = 1) <=> AboveTau(delta_speed[i])
               /\ (labels[i] = -1) <=> BelowMinusTau(delta_speed[i])
               /\ (labels[i] = 0) <=>
                      (~AboveTau(delta_speed[i]) /\ ~BelowMinusTau(delta_speed[i]))
        /\ \A i \in 2..n_points :
               ( /\ ~AboveTau(delta_speed[i]) /\ ~BelowMinusTau(delta_speed[i])
                 /\ ~AboveTau(delta_speed[i - 1]) /\ ~BelowMinusTau(delta_speed[i - 1]) )
               => seg_ids[i] = seg_ids[i - 1]

\* exactly +0.1 next to exactly -0.1, with a point outside the band
C6_Witness ==
    /\ Segmented
    /\ n_points >= 3
    /\ delta_speed[1] = <<1, 10>>
    /\ delta_speed[2] = <<-1, 10>>
    /\ seg_ids[2] = 0
    /\ labels[3] = -1

\* the advantage values of a trace's positions that are not NaN
FiniteAt(idx) == {i \in Range(idx) : ~IsNaN(delta_speed[i])}

RECURSIVE SumOver(_)
SumOver(S) ==
    IF S = {} THEN F(0)
    ELSE LET i == CHOOSE j \in S : TRUE
         IN  FAdd(delta_speed[i], SumOver(S \ {i}))

\* sum / count > tau and sum / count < -tau, for the threshold tau of the
\* per-point classification
MeanAbove(S) ==
    S # {} /\ Threshold[2] * SumOver(S)[1] > Threshold[1] * Cardinality(S) * SumOver(S)[2]

MeanBelow(S) ==
    S # {} /\ Threshold[2] * SumOver(S)[1] < -Threshold[1] * Cardinality(S) * SumOver(S)[2]

\* C7: each segment is displayed by the mean of the advantage over exactly its
\* own positions (NaN values left out), compared with the threshold of the
\* per-point classification: driver 1's colour and name iff mean > tau, driver
\* 2's iff mean < -tau, the neutral colour and "Equal pace" otherwise.
C7_DominantFromSegmentMean ==
    MapBuilt =>
        \A k \in 1..Len(fig.traces) :
            LET tr == fig.traces[k]
                S == FiniteAt(tr.idx)
            IN  /\ Range(tr.idx) = {i \in 1..n_points : seg_ids[i] = k - 1}
                /\ (tr.color = c1 /\ tr.name = <<driver1, " faster">>) <=> MeanAbove(S)
                /\ (tr.color = c2 /\ tr.name = <<driver2, " faster">>) <=> MeanBelow(S)
                /\ (tr.color = LightGrey /\ tr.name = <<"Equal pace">>)
                       <=> (~MeanAbove(S) /\ ~MeanBelow(S))

\* a segment of two different values, one of mean exactly 0.1, and one with
\* a NaN beside a finite value
C7_Witness ==
    /\ MapBuilt
    /\ \E k \in 1..Len(fig.traces) :
           /\ Len(fig.traces[k].idx) = 2
           /\ fig.traces[k].mean_delta = <<1, 4>>
           /\ fig.traces[k].color = c1
    /\ \E k \in 1..Len(fig.traces) :
           /\ fig.traces[k].mean_delta = <<-1, 10>>
           /\ fig.traces[k].color = LightGrey

----------------------------------------------------------------------------
(* Claims about build_circuit_comparison_map (Spec) *)

\* C3: build_circuit_comparison_map never raises past its boundary: every
\* failure inside it ends in the returned "unavailable" figure.
C3_NeverRaisesPastBoundary == pc # "raised"

AllNaN(arr) == Len(arr) >= 1 /\ \A i \in 1..Len(arr) : IsNaN(arr[i])

\* C9: NaN advantage values do not stop the build: every NaN point is labelled
\* equal; when the whole advantage array is NaN the grid is one segment, and
\* the map is returned with that segment in the neutral colour, named
\* "Equal pace", covering every grid point.
C9_AllNaNAdvantageIsEqual ==
    /\ pc = "raised" => delta_speed = Empty
    /\ Segmented =>
           /\ \A i \in 1..Len(delta_speed) : IsNaN(delta_speed[i]) => labels[i] = 0
           /\ AllNaN(delta_speed) => \A i \in 1..Len(seg_ids) : seg_ids[i] = 0
    /\ (MapBuilt /\ AllNaN(delta_speed)) =>
           /\ Len(fig.traces) = 1
           /\ fig.traces[1].idx = Interval(1, n_points)
           /\ fig.traces[1].color = LightGrey
           /\ fig.traces[1].name = <<"Equal pace">>

C9_Witness ==
    /\ MapBuilt
    /\ AllNaN(delta_speed)
    /\ \E i \in 1..n_points : ~IsNaN(aligned.Speed1[i])

----------------------------------------------------------------------------
(* Claims about the telemetry lookups of build_circuit_comparison_map (Spec) *)

NotFound(d) == <<"Driver ", d, " not found in session">>

NoLaps == <<"No laps for driver">>

\* the lookup of driver d gets past the roster and the laps checks
HasLaps(d) == session[d].in_roster /\ session[d].laps # "empty"

\* the lookup of driver d returns a DataFrame
LookupReturns(d) == session[d].in_roster /\ session[d].laps = "ok"

\* the "unavailable" figure with this reason, and nothing else, was returned
ReturnedUnavailable(reason) ==
    /\ pc = "returned"
    /\ fig.traces = <<>>
    /\ fig.background = <<>>
    /\ fig.annotation = <<"Telemetry unavailable: ", reason>>

\* C11: a driver code that matches no roster entry gives the driver-not-found
\* error, whatever the laps; a driver in the roster with zero laps gives the
\* no-lap-data error; when the lookup of driver 1, or of driver 2 after driver
\* 1's returned, fails this way, the "unavailable" figure is returned and its
\* text carries that error's reason.
C11_LookupErrorsBecomeUnavailable ==
    pc # "start" =>
        /\ ~session[driver1].in_roster => ReturnedUnavailable(NotFound(driver1))
        /\ (session[driver1].in_roster /\ ~HasLaps(driver1))
               => ReturnedUnavailable(NoLaps)
        /\ (LookupReturns(driver1) /\ ~session[driver2].in_roster)
               => ReturnedUnavailable(NotFound(driver2))
        /\ (LookupReturns(driver1) /\ session[driver2].in_roster /\ ~HasLaps(driver2))
               => ReturnedUnavailable(NoLaps)

\* driver 1's telemetry is there, driver 2 is not in the roster
C11_Witness ==
    /\ pc = "returned"
    /\ LookupReturns(driver1)
    /\ Len(session[driver1].tel) >= 1
    /\ ~session[driver2].in_roster
    /\ fig.annotation = <<"Telemetry unavailable: ", NotFound(driver2)>>

\* C12: a query with driver 1 identical to driver 2 is rejected by
\* build_circuit_comparison_map: nothing is aligned or segmented and no map is
\* returned for it.
C12_SameDriverRejected ==
    (driver1 = driver2) =>
        /\ pc \notin {"aligned", "segmented", "coloured"}
        /\ ~MapBuilt

\* the grid positions of all segment traces, in the order of the traces
RECURSIVE TracePositions(_, _)
TracePositions(traces, k) ==
    IF k > Len(traces) THEN <<>>
    ELSE traces[k].idx \o TracePositions(traces, k + 1)

\* C13: every returned figure is complete or absent: either it has no segment
\* trace and no background (the "unavailable" figure), or its segment traces
\* together cover every grid position exactly once, each with one x and one y
\* per position taken from the aligned arrays, and the background has one
\* point per grid position; before the return, and when an error is raised,
\* there is no figure at all.
C13_CompleteOrAbsent ==
    /\ pc = "returned" =>
           \/ /\ fig.traces = <<>>
              /\ fig.background = <<>>
              /\ fig.annotation # <<>>
           \/ /\ fig.annotation = <<>>
              /\ Len(aligned.Distance) = n_points
              /\ TracePositions(fig.traces, 1) = Interval(1, n_points)
              /\ \A k \in 1..Len(fig.traces) :
                     LET tr == fig.traces[k] IN
                     /\ Len(tr.x) = Len(tr.idx) /\ Len(tr.y) = Len(tr.idx)
                     /\ \A j \in 1..Len(tr.idx) :
                            /\ tr.x[j] = aligned.X1[tr.idx[j]]
                            /\ tr.y[j] = aligned.Y1[tr.idx[j]]
              /\ Len(fig.background) = n_points
    /\ pc # "returned" => fig = NoFig

\* a map of two segments
C13_Witness ==
    /\ MapBuilt
    /\ driver1 # driver2
    /\ Len(fig.traces) = 2
    /\ Len(fig.traces[1].idx) = 1

\* C18: the lookups are made once each, driver 1's before driver 2's, never
\* repeated; when driver 1's lookup fails, driver 2's is not made and the
\* reason returned is driver 1's.
C18_LookupsOnceInOrder ==
    /\ pc = "start" => requests = <<>>
    /\ pc # "start" =>
           /\ requests \in {<<driver1>>, <<driver1, driver2>>}
           /\ LookupReturns(driver1) <=> (requests = <<driver1, driver2>>)
           /\ ~LookupReturns(driver1) =>
                  /\ pc = "returned"
                  /\ fig.traces = <<>>
                  /\ fig.annotation =
                         <<"Telemetry unavailable: ",
                           extract_fastest_telemetry(session, driver1).err[2]>>

\* both lookups would fail, with different reasons
C18_Witness ==
    /\ pc = "returned"
    /\ ~session[driver1].in_roster
    /\ driver2 # driver1
    /\ session[driver2].in_roster /\ session[driver2].laps = "empty"
    /\ requests = <<driver1>>
    /\ fig.annotation = <<"Telemetry unavailable: ", NotFound(driver1)>>

----------------------------------------------------------------------------
(* Claims about the colours (SpecColour) *)

Coloured == pc \in {"coloured", "returned"}

\* the two lookups return the same hex value, upper or lower case
SameLookup ==
    Lower(get_team_color_safe(session, driver1))
        = Lower(get_team_color_safe(session, driver2))

\* the channel values of the colour both lookups returned
LookedUp == get_team_color_safe(session, driver2).rgb

\* C14: when the two lookups return the same hex value, compared without
\* regard to case, the display colours of driver 1 and driver 2 differ: they
\* are two different strings and two different RGB values.
C14_SameLookupShadesDiffer ==
    (Coloured /\ SameLookup) =>
        /\ c1 # c2
        /\ c1.rgb # c2.rgb

\* the team colour is spelled in upper case for one driver, in lower case for
\* the other
C14_Witness ==
    /\ Coloured
    /\ session[driver1].team_color = HexUpper(200, 0, 255)
    /\ session[driver2].team_color = Hex(200, 0, 255)
    /\ c1 = Hex(160, 10, 201)
    /\ c2 = Hex(207, 77, 242)

\* C15 as stated: when both lookups return the same colour, every channel of
\* driver 1's display colour is <= the looked-up value and every channel of
\* driver 2's is >= it.
C15_DarkerAndLighterEveryChannel ==
    (Coloured /\ SameLookup) =>
        \A i \in 1..3 :
            /\ c1.rgb[i] <= LookedUp[i]
            /\ c2.rgb[i] >= LookedUp[i]

\* C15 amended: driver 1's channel is <= the looked-up value when that value
\* is >= 37 and lies above it, at 37 at most, when it is <= 36; driver 2's
\* channel is >= the looked-up value when that value is <= 220 and lies below
\* it, at 220 at least, when it is >= 221.
C15_TowardsNearBlackAndNearWhite ==
    (Coloured /\ SameLookup) =>
        \A i \in 1..3 :
            /\ LookedUp[i] >= 37 => c1.rgb[i] <= LookedUp[i]
            /\ LookedUp[i] <= 36 => (LookedUp[i] < c1.rgb[i] /\ c1.rgb[i] <= 37)
            /\ LookedUp[i] <= 220 => c2.rgb[i] >= LookedUp[i]
            /\ LookedUp[i] >= 221 => (c2.rgb[i] < LookedUp[i] /\ c2.rgb[i] >= 220)

\* a colour with a channel at 0, one at 255 and one at 37
C15_Witness ==
    /\ Coloured
    /\ SameLookup
    /\ LookedUp = <<0, 255, 37>>
    /\ c1.rgb = <<10, 201, 37>>
    /\ c2.rgb = <<77, 242, 101>>

\* the display colours lines 176-182 give the two drivers
Display1 ==
    IF SameLookup
    THEN mix_color(get_team_color_safe(session, driver1), <<40, 40, 40>>, 1, 4)
    ELSE get_team_color_safe(session, driver1)

Display2 ==
    IF SameLookup
    THEN mix_color(get_team_color_safe(session, driver2), <<220, 220, 220>>, 7, 20)
    ELSE get_team_color_safe(session, driver2)

\* C16: a segment whose dominant driver is Equal has the colour "lightgrey",
\* which is neither driver's display colour, whatever the team colours and
\* whether or not they were disambiguated; a segment dominated by driver 1
\* has driver 1's display colour, one dominated by driver 2 driver 2's.
C16_EqualIsNeutral ==
    MapBuilt =>
        /\ c1 = Display1 /\ c2 = Display2
        /\ LightGrey \notin {c1, c2}
        /\ \A k \in 1..Len(fig.traces) :
               LET tr == fig.traces[k]
                   S == FiniteAt(tr.idx)
               IN  /\ (~MeanAbove(S) /\ ~MeanBelow(S)) => tr.color = LightGrey
                   /\ MeanAbove(S) => tr.color = Display1
                   /\ MeanBelow(S) => tr.color = Display2

\* equal team colours, disambiguated, and one segment of each kind
C16_Witness ==
    /\ MapBuilt
    /\ SameLookup
    /\ LookedUp = <<211, 0, 255>>
    /\ Len(fig.traces) = 3
    /\ fig.traces[1].color = c1
    /\ fig.traces[2].color = LightGrey
    /\ fig.traces[3].color = c2

IsHex(c) == c.name \in {"hex", "HEX"} /\ Len(c.rgb) = 3

\* shown as colour c: c itself, or the shade of c made for this driver when
\* both lookups agree
Shows1(c) == c1 \in {c, mix_color(c, <<40, 40, 40>>, 1, 4)}

Shows2(c) == c2 \in {c, mix_color(c, <<220, 220, 220>>, 7, 20)}

\* team_color(team) is reached and raises
TeamColorFails(d) ==
    session[d].in_roster /\ session[d].team # "" /\ session[d].team_color = NoColor

\* C17 as stated: the lookup never raises, and the fallback "#1f77b4" is what
\* it returns when the driver is not in the roster, the team has no known
\* colour, or a colour provider call fails.
C17_AnyFailureGivesFallback ==
    /\ pc = "segmented" => ENABLED Colours
    /\ Coloured =>
           /\ IsHex(c1) /\ IsHex(c2)
           /\ (~session[driver1].in_roster \/ TeamColorFails(driver1))
                  => Shows1(DefaultColor)
           /\ (~session[driver2].in_roster \/ TeamColorFails(driver2))
                  => Shows2(DefaultColor)

\* no source gives a colour for driver d
NoSource(d) ==
    \/ ~session[d].in_roster
    \/ session[d].team = ""
    \/ TeamColorFails(d) /\ session[d].TEAM_COLORS \in {Raises, NoColor}

\* team_color(team) raises and TEAM_COLORS has a colour for the team
SecondSource(d) ==
    TeamColorFails(d) /\ session[d].TEAM_COLORS \notin {Raises, NoColor}

\* C17 amended: the lookup never raises and always returns a hex colour; it
\* returns the fallback "#1f77b4" when the driver is not in the roster, the
\* team name is empty, or team_color fails and TEAM_COLORS cannot be imported
\* or has no colour for the team; when team_color fails and TEAM_COLORS has a
\* colour for the team, it returns that colour.
C17_FallbackWhenNoSource ==
    /\ pc = "segmented" => ENABLED Colours
    /\ Coloured =>
           /\ IsHex(c1) /\ IsHex(c2)
           /\ NoSource(driver1) => Shows1(DefaultColor)
           /\ NoSource(driver2) => Shows2(DefaultColor)
           /\ SecondSource(driver1) => Shows1(session[driver1].TEAM_COLORS)
           /\ SecondSource(driver2) => Shows2(session[driver2].TEAM_COLORS)

\* driver 1 is not in the roster, driver 2's team_color fails and TEAM_COLORS
\* cannot be imported: both get the fallback, which is then disambiguated
C17_Witness ==
    /\ Coloured
    /\ ~session[driver1].in_roster
    /\ TeamColorFails(driver2)
    /\ session[driver2].TEAM_COLORS = Raises
    /\ c1 = mix_color(DefaultColor, <<40, 40, 40>>, 1, 4)
    /\ c2 = mix_color(DefaultColor, <<220, 220, 220>>, 7, 20)

----------------------------------------------------------------------------
(* The concrete scenario (SpecScenario) *)

IsScenario == t1 = ScenarioA /\ t2 = ScenarioB /\ n_points = 3

\* C20: for driver 1's trace [(0, 100), (10, 120), (20, 80)], driver 2's
\* trace [(0, 90), (10, 90), (20, 110)], 3 grid points and threshold 0.1 the
\* Aligner does not raise, the grid is [0, 10, 20], the advantage is
\* [10, 30, -30], the labels are [1, 1, -1] (driver 1, driver 1, driver 2) and
\* the map has exactly two segments: grid positions 1..2 in driver 1's colour
\* and name, then position 3 in driver 2's.
C20_ConcreteScenario ==
    IsScenario =>
        /\ pc # "raised"
        /\ pc # "extracted" => aligned.Distance = <<F(0), F(10), F(20)>>
        /\ Segmented =>
               /\ delta_speed = <<F(10), F(30), F(-30)>>
               /\ labels = <<1, 1, -1>>
               /\ seg_ids = <<0, 0, 1>>
        /\ pc = "returned" =>
               /\ Len(fig.traces) = 2
               /\ fig.traces[1].idx = <<1, 2>>
               /\ fig.traces[1].color = c1
               /\ fig.traces[1].name = <<driver1, " faster">>
               /\ fig.traces[2].idx = <<3>>
               /\ fig.traces[2].color = c2
               /\ fig.traces[2].name = <<driver2, " faster">>

C20_Witness ==
    /\ IsScenario
    /\ pc = "returned"
    /\ Len(fig.traces) = 2
    /\ fig.traces[1].mean_delta = F(20)
    /\ fig.traces[2].mean_delta = F(-30)

----------------------------------------------------------------------------
(* The background trace (SpecScenario) *)

\* C21: the background trace of every comparison map has exactly n_points
\* points, and its i-th point is the average of the two drivers' aligned
\* positions at grid point i: twice its x is X1[i] + X2[i] and twice its y is
\* Y1[i] + Y2[i].
C21_BackgroundIsAverage ==
    MapBuilt =>
        /\ Len(fig.background) = n_points
        /\ \A i \in 1..n_points :
               /\ FAdd(fig.background[i][1], fig.background[i][1])
                      = FAdd(aligned.X1[i], aligned.X2[i])
               /\ FAdd(fig.background[i][2], fig.background[i][2])
                      = FAdd(aligned.Y1[i], aligned.Y2[i])

\* a map on three grid points where the drivers' positions differ in x and y
C21_Witness ==
    /\ MapBuilt
    /\ n_points = 3
    /\ \E i \in 1..n_points :
           /\ aligned.X1[i] # aligned.X2[i]
           /\ aligned.Y1[i] # aligned.Y2[i]
           /\ fig.background[i][2] = <<1, 2>>

----------------------------------------------------------------------------
(* identify_stints (backend/strategy.py) *)

\* most laps of one driver
MaxLaps == 3

\* Python's None
None == "None"

\* a missing Compound cell that holds float("nan") instead of None
NanCompound == "nan"

\* Python's a != b on Compound cells: nan differs from everything, itself
\* included
PyNe(a, b) == a = NanCompound \/ b = NanCompound \/ a # b

\* session.drivers, in the provider's order
DriverOrder == <<"VER", "HAM">>

\* a Compound cell: two of TYRE_COMPOUNDS_ORDER, or missing as None or nan
Compounds == {"SOFT", "MEDIUM", None, NanCompound}

\* the tables of n laps numbered 1..n; PitOutTime tells whether the lap
\* started with the car leaving the pits (PitOutTime.notna())
LapsOf(n) ==
    {[i \in 1..n |-> [LapNumber |-> i, Compound |-> c[i],
                      PitOutTime |-> (i > 1 /\ o[i])]] :
        c \in [1..n -> Compounds], o \in [1..n -> BOOLEAN]}

StintRow(code, compound, start, end) ==
    [Driver |-> code, Compound |-> compound, StintStartLap |-> start,
     StintEndLap |-> end]

\* lines 28-49: the loop over dlaps from row i on, then the closing of the
\* last stint
RECURSIVE StintScan(_, _, _, _, _)
StintScan(code, dlaps, i, current_compound, stint_start) ==
    IF i > Len(dlaps)
    THEN IF current_compound # None
         THEN <<StintRow(code, current_compound, stint_start,
                         dlaps[Len(dlaps)].LapNumber)>>
         ELSE <<>>
    ELSE LET lap == dlaps[i]
             comp == lap.Compound
         IN  IF current_compound = None
             THEN StintScan(code, dlaps, i + 1, comp, lap.LapNumber)
             ELSE IF PyNe(comp, current_compound)
             THEN <<StintRow(code, current_compound, stint_start,
                             lap.LapNumber - 1)>>
                  \o StintScan(code, dlaps, i + 1, comp, lap.LapNumber)
             ELSE StintScan(code, dlaps, i + 1, current_compound, stint_start)

\* lines 21-27: the rows of the drivers from the k-th on; a driver without
\* laps is skipped
RECURSIVE StintsFrom(_, _)
StintsFrom(ls, k) ==
    IF k > Len(DriverOrder) THEN <<>>
    ELSE LET drv == DriverOrder[k]
         IN  (IF Len(ls[drv]) = 0 THEN <<>>
              ELSE StintScan(drv, ls[drv], 1, None, None))
             \o StintsFrom(ls, k + 1)

identify_stints(ls) == StintsFrom(ls, 1)

IdentifyStints ==
    /\ stints = <<>>
    /\ stints' = [rows |-> identify_stints(laps)]
    /\ UNCHANGED <<pipeline_vars, precision, app_vars, laps>>

PipelineIdle ==
    /\ session = Empty /\ driver1 = "" /\ driver2 = ""
    /\ n_points = 0
    /\ t1 = Empty /\ t2 = Empty
    /\ aligned = Empty /\ delta_speed = Empty
    /\ seg_ids = Empty /\ labels = Empty
    /\ c1 = Empty /\ c2 = Empty /\ fig = NoFig /\ err = <<>>
    /\ requests = <<>>
    /\ pc = "idle"

\* every table of at most MaxLaps laps for the first driver, at most one lap
\* for the second
InitStints ==
    /\ PipelineIdle /\ precision = 0 /\ AppIdle
    /\ laps \in [VER : UNION {LapsOf(n) : n \in 0..MaxLaps},
                 HAM : LapsOf(0) \cup LapsOf(1)]
    /\ stints = <<>>

NextStints == IdentifyStints

SpecStints == InitStints /\ [][NextStints]_vars

----------------------------------------------------------------------------
(* Claims about identify_stints (SpecStints) *)

StintsReturned == stints # <<>>

\* the rows of driver d, in the order of the returned table
StintsOf(d) == SelectSeq(stints.rows, LAMBDA r : r.Driver = d)

\* every lap of driver d has a recorded compound
CompoundsRecorded(d) ==
    \A i \in 1..Len(laps[d]) : laps[d][i].Compound \notin {None, NanCompound}

\* C26: identify_stints identifies stints from compound changes and from pit
\* stops: for each driver a stint starts at every lap whose compound differs
\* from the previous lap's and at every lap that follows a pit stop, also
\* when the driver continues on the same compound.  Stated for the drivers
\* whose compounds are all recorded.
C26_StintsFromCompoundsAndPitStops ==
    StintsReturned =>
        \A d \in Drivers :
            CompoundsRecorded(d) =>
                \A i \in 2..Len(laps[d]) :
                    (laps[d][i].Compound # laps[d][i - 1].Compound
                        \/ laps[d][i].PitOutTime)
                    => \E k \in 1..Len(StintsOf(d)) :
                           StintsOf(d)[k].StintStartLap = laps[d][i].LapNumber

\* C27: for every driver with at least one lap the stints are ordered by
\* start lap, do not overlap, have StintStartLap <= StintEndLap, cover every
\* lap of the driver exactly once, also when a compound is missing, and two
\* consecutive stints have different compounds.
C27_StintsPartitionLaps ==
    StintsReturned =>
        \A d \in Drivers :
            Len(laps[d]) >= 1 =>
                LET S == StintsOf(d)
                IN  /\ \A k \in 1..Len(S) : S[k].StintStartLap <= S[k].StintEndLap
                    /\ \A k \in 1..(Len(S) - 1) :
                           /\ S[k].StintEndLap < S[k + 1].StintStartLap
                           /\ S[k].Compound # S[k + 1].Compound
                    /\ \A i \in 1..Len(laps[d]) :
                           Cardinality({k \in 1..Len(S) :
                               /\ S[k].StintStartLap <= laps[d][i].LapNumber
                               /\ laps[d][i].LapNumber <= S[k].StintEndLap}) = 1

----------------------------------------------------------------------------
(* The Streamlit app (app.py).  Every interaction with a widget reruns the *)
(* script from its first line: an action is one interaction followed by   *)
(* the whole rerun.                                                        *)

\* seasons, events and session types offered by the sidebar (lines 54-57)
Years == {2023, 2024}

GrandPrix == {"Monaco Grand Prix", "Italian Grand Prix"}

SessionTypes == {"FP1", "FP2", "FP3", "Qualifying", "Race"}

\* get_drivers(session), the same for every session
Roster == <<"VER", "HAM">>

\* Python's None where a session is expected
NoSession == <<>>

\* the session of the sidebar's selection: _cached_session(year, gp_name,
\* session_type) and load_fastf1_session_cached(year, gp_name, session_type)
SessionOf(w) == <<w.year, w.gp_name, w.session_type>>

\* a key that is absent from st.session_state reads as None, "" or False
NoSessionState ==
    [f1_session |-> NoSession, session_info |-> <<>>,
     telemetry_updated |-> FALSE,
     telemetry_driver_1 |-> "", telemetry_driver_2 |-> ""]

\* lines 64-77: the local variable session and st.session_state after the
\* load_btn handler
LoadHandler(w, ss, load_btn, load_ok) ==
    IF load_btn /\ load_ok
    THEN [session |-> SessionOf(w),
          ss |-> [ss EXCEPT !.f1_session = SessionOf(w),
                            !.session_info = SessionOf(w),
                            !.telemetry_updated = FALSE]]
    ELSE [session |-> NoSession, ss |-> ss]

\* lines 156-162: the keys of the driver selectors get their first values
InitDriverKeys(ss) ==
    LET drivers == Roster
        first == IF ss.telemetry_driver_1 = ""
                 THEN (IF Len(drivers) > 0 THEN drivers[1] ELSE "")
                 ELSE ss.telemetry_driver_1
        second == IF ss.telemetry_driver_2 = ""
                  THEN (IF Len(drivers) > 1 THEN drivers[2] ELSE first)
                  ELSE ss.telemetry_driver_2
    IN  [ss EXCEPT !.telemetry_driver_1 = first, !.telemetry_driver_2 = second]

\* lines 175-177
ShouldCompute(ss) ==
    /\ ss.telemetry_driver_1 # ""
    /\ ss.telemetry_driver_2 # ""
    /\ ss.telemetry_driver_1 # ss.telemetry_driver_2
    /\ ss.telemetry_updated

\* mutant: the flag is reset at the end of the try block, not in finally
TelemetryPageResetInTry(w, ss, tel_ok) ==
    IF ss.f1_session = NoSession
    THEN [ss |-> ss, computed |-> <<>>, shown |-> "load a session first"]
    ELSE LET ss1 == InitDriverKeys(ss)
         IN  IF ShouldCompute(ss1)
             THEN [ss |-> [ss1 EXCEPT !.telemetry_updated = ~tel_ok],
                   computed |-> <<w.year, w.gp_name, w.session_type,
                                  ss1.telemetry_driver_1, ss1.telemetry_driver_2>>,
                   shown |-> IF tel_ok THEN "plots" ELSE "telemetry unavailable"]
             ELSE [ss |-> ss1, computed |-> <<>>, shown |-> "select two drivers"]

\* lines 147-195: st.session_state after the Telemetry page, the arguments
\* cached_telemetry_compare was called with (<<>> if it was not called) and
\* what the page shows
TelemetryPage(w, ss, tel_ok) ==
    IF ss.f1_session = NoSession
    THEN [ss |-> ss, computed |-> <<>>, shown |-> "load a session first"]
    ELSE LET ss1 == InitDriverKeys(ss)
         IN  IF ShouldCompute(ss1)
             THEN [ss |-> [ss1 EXCEPT !.telemetry_updated = FALSE],
                   computed |-> <<w.year, w.gp_name, w.session_type,
                                  ss1.telemetry_driver_1, ss1.telemetry_driver_2>>,
                   shown |-> IF tel_ok THEN "plots" ELSE "telemetry unavailable"]
             ELSE [ss |-> ss1, computed |-> <<>>, shown |-> "select two drivers"]

\* lines 332-370: the session the strategy analyses run on, None if the page
\* only shows "Load a Race session for strategy analysis."
StrategyPage(w, sess) ==
    IF sess = NoSession \/ w.session_type # "Race" THEN NoSession ELSE sess

\* the script stopped at line 55: list_events_for_year raised and no page ran
Crashed(cause, changed) ==
    [cause |-> cause, crashed |-> TRUE, loaded |-> FALSE,
     home |-> NoSession, driver_analysis |-> NoSession,
     telemetry |-> NoSession, computed |-> <<>>, shown |-> "error",
     strategy |-> NoSession, driver_changed |-> changed]

\* one run of the script, lines 47-372, on the widget values w and the
\* session state ss.  The local variable session is None (line 64) unless
\* this run loaded a session, and is rebound to st.session_state's session
\* at line 150.  driver_changed records whether a driver selection changed
\* since the last load or computation.
Script(w, ss, cause, load_ok, tel_ok, changed) ==
    LET l == LoadHandler(w, ss, cause = "load", load_ok)
        t == TelemetryPage(w, l.ss, tel_ok)
        loaded == l.session # NoSession
    IN  [ss |-> t.ss,
         page |-> [cause |-> cause, crashed |-> FALSE, loaded |-> loaded,
                   home |-> l.session,
                   driver_analysis |-> l.session,
                   telemetry |-> l.ss.f1_session,
                   computed |-> t.computed,
                   shown |-> t.shown,
                   strategy |-> StrategyPage(w, l.ss.f1_session),
                   driver_changed |->
                       changed /\ ~loaded /\ t.computed = <<>>]]

\* a rerun of the script after the interaction cause, which left the widget
\* values w and the session state ss
Rerun(w, ss, cause) ==
    LET changed == page.driver_changed \/ cause = "driver"
    IN  /\ widgets' = w
        /\ \/ /\ session_state' = ss
              /\ page' = Crashed(cause, changed)
           \/ \E load_ok, tel_ok \in BOOLEAN :
                  /\ session_state' = Script(w, ss, cause, load_ok, tel_ok, changed).ss
                  /\ page' = Script(w, ss, cause, load_ok, tel_ok, changed).page
        /\ UNCHANGED <<pipeline_vars, precision, stint_vars>>

\* line 54: the year is typed in; the widget is drawn before line 55
ChangeYear ==
    \E y \in Years \ {widgets.year} :
        Rerun([widgets EXCEPT !.year = y], session_state, "sidebar")

\* line 56
ChangeGrandPrix ==
    /\ ~page.crashed
    /\ \E g \in GrandPrix \ {widgets.gp_name} :
           Rerun([widgets EXCEPT !.gp_name = g], session_state, "sidebar")

\* line 57
ChangeSessionType ==
    /\ ~page.crashed
    /\ \E t \in SessionTypes \ {widgets.session_type} :
           Rerun([widgets EXCEPT !.session_type = t], session_state, "sidebar")

\* line 58: the Load Session button
ClickLoad ==
    /\ ~page.crashed
    /\ Rerun(widgets, session_state, "load")

\* lines 165-170: the Driver 1 selector and its callback _on_change_driver
ChangeDriver1 ==
    /\ page.telemetry # NoSession
    /\ \E d \in Range(Roster) \ {session_state.telemetry_driver_1} :
           Rerun(widgets,
                 [session_state EXCEPT !.telemetry_driver_1 = d,
                                       !.telemetry_updated = TRUE],
                 "driver")

\* lines 165-172: the Driver 2 selector
ChangeDriver2 ==
    /\ page.telemetry # NoSession
    /\ \E d \in Range(Roster) \ {session_state.telemetry_driver_2} :
           Rerun(widgets,
                 [session_state EXCEPT !.telemetry_driver_2 = d,
                                       !.telemetry_updated = TRUE],
                 "driver")

\* lines 138 and 360-362: the selectors of the Driver Analysis and Strategy
\* pages, drawn when the page has a session
ChangeOtherWidget ==
    /\ page.driver_analysis # NoSession \/ page.strategy # NoSession
    /\ Rerun(widgets, session_state, "widget")

\* the app after its first run: default year, first event, first session type
InitApp ==
    /\ PipelineIdle /\ precision = 0 /\ StintsIdle
    /\ widgets = [year |-> 2024, gp_name |-> "Monaco Grand Prix",
                  session_type |-> "FP1"]
    /\ session_state = NoSessionState
    /\ page = Script(widgets, NoSessionState, "start", FALSE, FALSE, FALSE).page

NextApp ==
    \/ ChangeYear \/ ChangeGrandPrix \/ ChangeSessionType \/ ClickLoad
    \/ ChangeDriver1 \/ ChangeDriver2 \/ ChangeOtherWidget

SpecApp == InitApp /\ [][NextApp]_vars

----------------------------------------------------------------------------
(* Claims about the app (SpecApp) *)

Computed == page.computed # <<>>

C23_ComputedForStoredSession ==
    Computed =>
        <<page.computed[1], page.computed[2], page.computed[3]>>
            = session_state.f1_session

\* C24: the Strategy page runs its analyses only on a loaded Race session,
\* never on a loaded practice or qualifying session.
C24_StrategyOnlyOnRace ==
    page.strategy # NoSession => page.strategy[3] = "Race"

\* C25: once a session is loaded, in every later rerun caused by a widget
\* change the Home and Driver Analysis tabs work on the same session as the
\* Telemetry tab.
C25_EveryTabSeesSession ==
    (/\ session_state.f1_session # NoSession
     /\ ~page.crashed
     /\ page.cause \in {"sidebar", "driver", "widget"})
    => /\ page.telemetry = session_state.f1_session
       /\ page.home = page.telemetry
       /\ page.driver_analysis = page.telemetry

----------------------------------------------------------------------------
(* The Segmenter and the assembly in rounded arithmetic *)

\* advantage values at and next to the float of 0.1, and 0
FloatDeltas ==
    {RoundTo(<<k, 256>>, Precision) : k \in {-27, -26, -25, 0, 25, 26, 27}}

\* the state after the Aligner returned, as InitSeg, with floats of Precision
\* significant bits
InitFloat ==
    /\ precision = Precision /\ AppIdle /\ StintsIdle
    /\ session \in [Drivers -> SegDriverData]
    /\ driver1 = "VER" /\ driver2 = "HAM"
    /\ n_points \in 1..MaxGrid
    /\ t1 = Empty /\ t2 = Empty
    /\ \E speed1 \in [1..n_points -> FloatDeltas] :
           aligned = [Distance |-> [i \in 1..n_points |-> F(i - 1)],
                      X1 |-> Zeros(n_points), Y1 |-> Zeros(n_points),
                      Speed1 |-> speed1,
                      X2 |-> Zeros(n_points), Y2 |-> Zeros(n_points),
                      Speed2 |-> Zeros(n_points)]
    /\ delta_speed = Empty
    /\ seg_ids = Empty /\ labels = Empty
    /\ c1 = Empty /\ c2 = Empty /\ fig = NoFig /\ err = <<>>
    /\ requests = <<driver1, driver2>>
    /\ pc = "aligned"

NextFloat == Segment \/ Colours \/ Assemble

SpecFloat == InitFloat /\ [][NextFloat]_vars

\* C28: for every segment whose advantage values are all finite, the dominant
\* driver derived from the segment mean is the common label of the segment's
\* points; and two adjacent segments never have the same dominant driver and
\* the same colour.
C28_DominantIsCommonLabel ==
    MapBuilt =>
        /\ \A k \in 1..Len(fig.traces) :
               LET tr == fig.traces[k]
               IN  (\A j \in 1..Len(tr.idx) : ~IsNaN(delta_speed[tr.idx[j]]))
                   => \A j \in 1..Len(tr.idx) : tr.dominant = labels[tr.idx[j]]
        /\ \A k \in 1..(Len(fig.traces) - 1) :
               ~(/\ fig.traces[k].dominant = fig.traces[k + 1].dominant
                 /\ fig.traces[k].color = fig.traces[k + 1].color)

====
